---- MODULE Spec2Model ----
(***************************************************************************)
(* buoy: the fetch-cache-extract pipeline of buoy/client.py.               *)
(*                                                                         *)
(* Processes are coroutines of one asyncio event loop.  Every action is    *)
(* the code a coroutine runs between two awaits.  Spec is run(): the main  *)
(* coroutine and one station_report unit per entry of station_list().      *)
(* SpecSeq is a caller that awaits NOAAClient._get calls one after the     *)
(* other, nothing else running.                                            *)
(*                                                                         *)
(* A page body is a sequence of elements [tag, attr, text]; a partially    *)
(* written file holds a prefix of the body.  hashlib.sha1 is taken to be   *)
(* collision free: the cache key is the string that is hashed.             *)
(***************************************************************************)
EXTENDS Integers, Sequences, FiniteSets, TLC

\* ------------------------------------------------------------- bounds
MaxStations == 2
MaxCalls == 3
MaxRows == 2
MaxStCalls == 2

\* ---------------------------------------------------------- processes
Main == 0
Units == 1..MaxStations
Caller == MaxStations + 1
Procs == {Main} \cup Units \cup {Caller}

\* ------------------------------------------------------- pages (data)
El(tag, attr, text) == [tag |-> tag, attr |-> attr, text |-> text]

StationIds == {1, 2}

StationHref(id) == "station_page.php?station=" \o ToString(id)

Anchors ==
  {El("a", StationHref(id), "station") : id \in StationIds}
    \cup {El("a", "radial_search.php", "search")}

CaptionOk == El("caption", "titleDataHeader", "1750 GMT on 08/10/2019:")
CaptionBoat == El("caption", "titleDataHeader", "whenever on a boat")
CaptionHour == El("caption", "titleDataHeader", "9999 GMT on 08/10/2019:")
CaptionPlain == El("caption", "other", "1750 GMT on 08/10/2019:")

SeqsUpTo(S, n) == UNION {[1..k -> S] : k \in 0..n}

\* What the remote site may serve for each URL.
IndexPages == SeqsUpTo(Anchors, MaxStations) \ {<<>>}
StationPages ==
  {<<CaptionOk>>, <<CaptionBoat>>, <<CaptionHour>>, <<CaptionPlain>>, <<>>}
\* Rows of the table under the caption: [tr, label cell, value cell]; tr_short
\* is a row with fewer than three cells.
Rows ==
  { El("tr", "Wave Height (WVHT):", "4.2 ft"),
    El("tr", "Dominant Wave Period (DPD):", "9 sec"),
    El("tr", "Average Period (APD):", "6.1 sec"),
    El("tr", "Mean Wave Direction (MWD):", "NNE ( 38 deg true )"),
    El("tr", "Mean Wave Direction (MWD):", "NNE"),
    El("tr", "Water Temperature (WTMP):", "61.2 F"),
    El("tr", "Air Pressure (PRES):", "30.1 in"),
    El("tr_short", "Wave Height (WVHT):", "9.9 ft") }

\* Station pages with a table: a caption and up to MaxRows rows.
ReportPages ==
  {<<c>> \o rows : c \in {CaptionOk, CaptionPlain}, rows \in SeqsUpTo(Rows, MaxRows)}

SearchPages == {<<El("a", StationHref(1), "station")>>, <<>>}

\* What station() reads of a station page: the anchors [a, href, text of the
\* enclosing element] and the divs [div, id, text].
RssHref(id) == "/data/latest_obs/" \o ToString(id) \o ".rss"
MetaOk == El("div", "stn_metadata", "32.868 N 117.267 W (32 52 4 N 117 16 0 W)")
MetaBad == El("div", "stn_metadata", "Owned and maintained by NDBC")
DivOther == El("div", "contents", "32.868 N 117.267 W")
A1 == El("a", RssHref(1), "Station 1")
A2 == El("a", RssHref(2), "Station 2")
\* Pages with and without the anchors, the metadata block and the coordinates.
DetailPages ==
  { <<A1, A2, MetaOk>>, <<MetaOk, A1, A2>>, <<A1, A2>>, <<A1, MetaOk>>,
    <<A1, A2, MetaBad>>, <<A1, A2, MetaBad, MetaOk>>, <<A1, A2, DivOther>>,
    <<MetaOk>>, <<>> }

\* --------------------------------------------------- urls, signatures
base_url == "https://www.ndbc.noaa.gov"

\* NOAAClient._url (posixpath.join of base_url and one relative part)
Url(part) == base_url \o "/" \o part

IndexUrl == Url("to_station.shtml")
StationUrl == Url("station_page.php")
SearchUrl == Url("radial_search.php")

Req(url, params) == [url |-> url, params |-> params]

IndexReq == Req(IndexUrl, <<>>)
StationReq(id) == Req(StationUrl, <<<<"station", id>>>>)

\* str(dict): the items in insertion order
RECURSIVE FmtItems(_)
FmtItems(ps) ==
  IF ps = <<>> THEN ""
  ELSE "'" \o ps[1][1] \o "': " \o ToString(ps[1][2])
         \o (IF Len(ps) > 1 THEN ", " \o FmtItems(Tail(ps)) ELSE "")

FmtDict(ps) == "{" \o FmtItems(ps) \o "}"

cache_key(url, params) == url \o "." \o FmtDict(params)

KeyOf(r) == cache_key(r.url, r.params)

\* The requests the caller of SpecSeq may make: one dict built in both orders.
CallerReqs ==
  { Req(SearchUrl, <<<<"a", 1>>, <<"b", 2>>>>),
    Req(SearchUrl, <<<<"b", 2>>, <<"a", 1>>>>) }

AllReqs == {IndexReq} \cup {StationReq(id) : id \in StationIds} \cup CallerReqs
Keys == {KeyOf(r) : r \in AllReqs}

PagesOf(url) ==
  IF url = IndexUrl THEN IndexPages
  ELSE IF url = StationUrl THEN StationPages
  ELSE SearchPages

\* ------------------------------------------------------------- values
\* A value or an outcome: kind and a sequence (a body, a report, an exception name).
NoVal == [kind |-> "pending", val |-> <<>>]
None == [kind |-> "none", val |-> <<>>]
Body(b) == [kind |-> "body", val |-> b]
Raise(e) == [kind |-> "raise", val |-> <<El("exc", e, "")>>]
ExcOf(o) == o.val[1].attr
IsRaise(o) == o.kind = "raise"

NoFile == [exists |-> FALSE, data |-> <<>>]
File(d) == [exists |-> TRUE, data |-> d]

NoReq == Req("", <<>>)

StatusCodes == {200, 203, 404}
TransportErrors == {"ClientConnectionError", "TimeoutError"}

Prefixes(b) == {SubSeq(b, 1, n) : n \in 0..Len(b)}

VARIABLES
  pc,        \* where each coroutine stands
  req,       \* _get: the (url, params) of the call in progress
  retval,    \* _get: the local retval
  got,       \* the outcome of the coroutine's last _get call
  via,       \* how that call was served: "hit", "net" or "none"
  out,       \* the outcome of the coroutine itself
  cache,     \* ./cache/<key>.html, per key
  cacheDir,  \* whether the directory ./cache exists
  closed,    \* whether session.close() has run
  netCount,  \* GET requests issued, per key
  fetched,   \* bodies read from 200 responses, per key
  stations,  \* run: the list station_list returned
  firstExc,  \* gather: the first exception a unit raised
  result,    \* run: the dict built from gather's result
  reports,   \* the files reports/<station_id>/<timestamp>.pickle
  log,       \* the caller's completed calls
  status,    \* _get: response.status of the call in progress, 0 before it
  store,     \* ./stations/<station_id>.pickle, per station id
  storeDir,  \* whether the directory ./stations exists
  batch,     \* the entry point that runs: "run" or "update_reports"
  uploaded   \* the keys put into the bucket by upload_data

vars == <<pc, req, retval, got, via, out, cache, cacheDir, closed, netCount,
          fetched, stations, firstExc, result, reports, log, status,
          store, storeDir, batch, uploaded>>

\* What the remote site serves to the entry point that runs: station() is
\* served pages that vary in what it reads, the other callers as PagesOf says.
Served(url) ==
  IF batch = "station" /\ url = StationUrl THEN DetailPages ELSE PagesOf(url)

\* The station store, and what only update.py touches.
stvars == <<store, storeDir>>
updvars == <<batch, uploaded>>

\* ---------------------------------------------------------------- Init
InitRest ==
  /\ req = [p \in Procs |-> NoReq]
  /\ retval = [p \in Procs |-> None]
  /\ via = [p \in Procs |-> "none"]
  /\ out = [p \in Procs |-> NoVal]
  /\ cache = [k \in Keys |-> NoFile]
  /\ cacheDir \in BOOLEAN
  /\ closed = FALSE
  /\ netCount = [k \in Keys |-> 0]
  /\ fetched = [k \in Keys |-> {}]
  /\ stations = <<>>
  /\ firstExc = NoVal
  /\ result = <<>>
  /\ reports = {}
  /\ log = <<>>
  /\ status = [p \in Procs |-> 0]
  /\ uploaded = {}

InitCommon ==
  /\ InitRest
  /\ got = [p \in Procs |-> NoVal]
  /\ store = [id \in StationIds |-> NoFile]
  /\ storeDir = TRUE
  /\ batch = "run"

\* asyncio.run(run()): the main coroutine is about to run, no unit exists yet.
Init ==
  /\ InitCommon
  /\ pc = [p \in Procs |-> IF p = Main THEN "start" ELSE "off"]

\* A caller with a fresh NOAAClient, about to await _get.
InitSeq ==
  /\ InitCommon
  /\ pc = [p \in Procs |-> IF p = Caller THEN "call" ELSE "off"]

\* ---------------------------------------------------- NOAAClient._get
\* _get hands `o` back to the coroutine that awaits it.
GetReturn(p, o, how) ==
  /\ got' = [got EXCEPT ![p] = o]
  /\ via' = [via EXCEPT ![p] = how]
  /\ pc' = [pc EXCEPT ![p] = "after_get"]

\* Bytes written at offset 0 over what the file holds.
Overlay(old, d) ==
  IF Len(d) >= Len(old) THEN d ELSE d \o SubSeq(old, Len(d) + 1, Len(old))

\* GetOpen without the cache: every call goes to the network.
GetOpen_NoCache(p) ==
  /\ pc[p] = "get_open"
  /\ retval' = [retval EXCEPT ![p] = None]
  /\ pc' = [pc EXCEPT ![p] = "get_net"]
  /\ status' = [status EXCEPT ![p] = 0]
  /\ UNCHANGED <<req, got, via, out, cache, cacheDir, closed, netCount, fetched,
                 stations, firstExc, result, reports, log, stvars, updvars>>

\* retval = None; aiofiles.open(cache_file, "r"); FileNotFoundError is logged.
GetOpen(p) ==
  /\ pc[p] = "get_open"
  /\ retval' = [retval EXCEPT ![p] = None]
  /\ pc' = [pc EXCEPT ![p] =
        IF cacheDir /\ cache[KeyOf(req[p])].exists THEN "get_read" ELSE "get_net"]
  /\ status' = [status EXCEPT ![p] = 0]
  /\ UNCHANGED <<req, got, via, out, cache, cacheDir, closed, netCount, fetched,
                 stations, firstExc, result, reports, log, stvars, updvars>>

\* return await f.read(): whatever the file holds now.
GetRead(p) ==
  /\ pc[p] = "get_read"
  /\ GetReturn(p, Body(cache[KeyOf(req[p])].data), "hit")
  /\ UNCHANGED <<req, retval, out, cache, cacheDir, closed, netCount, fetched,
                 stations, firstExc, result, reports, log, status, stvars, updvars>>

\* GetNet with raise_for_status: a status other than 200 raises.
GetNet_RaiseForStatus(p) ==
  /\ pc[p] = "get_net"
  /\ ~closed
  /\ netCount' = [netCount EXCEPT ![KeyOf(req[p])] = @ + 1]
  /\ \E s \in StatusCodes :
       /\ status' = [status EXCEPT ![p] = s]
       /\ IF s = 200
            THEN /\ pc' = [pc EXCEPT ![p] = "get_text"]
                 /\ UNCHANGED <<got, via>>
            ELSE GetReturn(p, Raise("ClientResponseError"), "net")
  /\ UNCHANGED <<req, retval, out, cache, cacheDir, closed, fetched, stations,
                 firstExc, result, reports, log, stvars, updvars>>

\* response = await self.session.get(url, params=params)
GetNet(p) ==
  /\ pc[p] = "get_net"
  /\ IF closed
       THEN /\ GetReturn(p, Raise("RuntimeError"), "none")
            /\ UNCHANGED <<netCount, status>>
       ELSE /\ netCount' = [netCount EXCEPT ![KeyOf(req[p])] = @ + 1]
            /\ \/ /\ \E e \in TransportErrors : GetReturn(p, Raise(e), "net")
                  /\ UNCHANGED status
               \/ \E s \in StatusCodes :
                    /\ status' = [status EXCEPT ![p] = s]
                    /\ IF s = 200
                         THEN /\ pc' = [pc EXCEPT ![p] = "get_text"]
                              /\ UNCHANGED <<got, via>>
                         ELSE GetReturn(p, retval[p], "net")
  /\ UNCHANGED <<req, retval, out, cache, cacheDir, closed, fetched, stations,
                 firstExc, result, reports, log, stvars, updvars>>

\* retval = await response.text()
GetText(p) ==
  /\ pc[p] = "get_text"
  /\ \/ /\ \E b \in Served(req[p].url) :
             /\ retval' = [retval EXCEPT ![p] = Body(b)]
             /\ fetched' = [fetched EXCEPT ![KeyOf(req[p])] = @ \cup {b}]
        /\ pc' = [pc EXCEPT ![p] = "get_wopen"]
        /\ UNCHANGED <<got, via>>
     \/ /\ GetReturn(p, Raise("ClientPayloadError"), "net")
        /\ UNCHANGED <<retval, fetched>>
  /\ UNCHANGED <<req, out, cache, cacheDir, closed, netCount, stations,
                 firstExc, result, reports, log, status, stvars, updvars>>

\* aiofiles.open(cache_file, "w"): creates or truncates the file.
GetWOpen(p) ==
  /\ pc[p] = "get_wopen"
  /\ IF cacheDir
       THEN /\ cache' = [cache EXCEPT ![KeyOf(req[p])] = File(<<>>)]
            /\ pc' = [pc EXCEPT ![p] = "get_write"]
            /\ UNCHANGED <<got, via>>
       ELSE /\ GetReturn(p, Raise("FileNotFoundError"), "net")
            /\ UNCHANGED cache
  /\ UNCHANGED <<req, retval, out, cacheDir, closed, netCount, fetched, stations,
                 firstExc, result, reports, log, status, stvars, updvars>>

\* await f.write(retval): buffered, any prefix may reach the file before close.
GetWrite(p) ==
  /\ pc[p] = "get_write"
  /\ \E d \in Prefixes(retval[p].val) :
       cache' = [cache EXCEPT ![KeyOf(req[p])] = File(Overlay(@.data, d))]
  /\ pc' = [pc EXCEPT ![p] = "get_close"]
  /\ UNCHANGED <<req, retval, got, via, out, cacheDir, closed, netCount, fetched,
                 stations, firstExc, result, reports, log, status, stvars, updvars>>

\* leaving `async with`: the file is flushed and closed; return retval
GetClose(p) ==
  /\ pc[p] = "get_close"
  /\ cache' = [cache EXCEPT ![KeyOf(req[p])] = File(Overlay(@.data, retval[p].val))]
  /\ GetReturn(p, retval[p], "net")
  /\ UNCHANGED <<req, retval, out, cacheDir, closed, netCount, fetched, stations,
                 firstExc, result, reports, log, status, stvars, updvars>>

Get(p) ==
  \/ GetOpen(p)
  \/ GetRead(p)
  \/ GetNet(p)
  \/ GetText(p)
  \/ GetWOpen(p)
  \/ GetWrite(p)
  \/ GetClose(p)

\* The coroutine awaits self._get(url, params).
CallGet(p, r) ==
  /\ req' = [req EXCEPT ![p] = r]
  /\ pc' = [pc EXCEPT ![p] = "get_open"]

\* ------------------------------------------- NOAAClient.station_report
\* re.search(r"(\d{4} GMT .+):$", text): group 1, or "" when nothing matches
caption_match(text) ==
  CASE text = "1750 GMT on 08/10/2019:" -> "1750 GMT on 08/10/2019"
    [] text = "9999 GMT on 08/10/2019:" -> "9999 GMT on 08/10/2019"
    [] OTHER -> ""

\* datetime.strptime(s, "%H%M %Z on %m/%d/%Y"): the timestamp, or "" for ValueError
strptime(s) ==
  CASE s = "1750 GMT on 08/10/2019" -> "2019-08-10T17:50:00"
    [] OTHER -> ""

\* The measurement fields of StationReport, in the order of the dataclass.
Fields ==
  <<"wave_height", "wave_dominant_period", "wave_average_period",
    "wave_mean_degrees", "water_temperature">>

\* StationReport(timestamp): every measurement field is None.
Report(ts) ==
  [kind |-> "report",
   val |-> <<El("timestamp", ts, "")>>
             \o [i \in 1..Len(Fields) |-> El(Fields[i], "None", "")]]

\* The re.search(r"^<label>", key) chain: the field of a label cell, "" for none.
field_of(key) ==
  CASE key = "Wave Height (WVHT):" -> "wave_height"
    [] key = "Dominant Wave Period (DPD):" -> "wave_dominant_period"
    [] key = "Average Period (APD):" -> "wave_average_period"
    [] key = "Mean Wave Direction (MWD):" -> "wave_mean_degrees"
    [] key = "Water Temperature (WTMP):" -> "water_temperature"
    [] OTHER -> ""

\* str.split() of a value cell, written as Python prints the list.
split(text) ==
  CASE text = "4.2 ft" -> "['4.2', 'ft']"
    [] text = "9.9 ft" -> "['9.9', 'ft']"
    [] text = "9 sec" -> "['9', 'sec']"
    [] text = "6.1 sec" -> "['6.1', 'sec']"
    [] text = "61.2 F" -> "['61.2', 'F']"
    [] text = "30.1 in" -> "['30.1', 'in']"
    [] text = "38 deg" -> "['38', 'deg']"
    [] text = "NNE ( 38 deg true )" -> "['NNE', '(', '38', 'deg', 'true', ')']"
    [] text = "NNE" -> "['NNE']"
    [] OTHER -> "[]"

\* re.search(r"(\d+ deg)", text): group 1, or "" when nothing matches
deg_match(text) ==
  CASE text = "NNE ( 38 deg true )" -> "38 deg"
    [] text = "38 deg" -> "38 deg"
    [] OTHER -> ""

\* report.<field> = value
set_field(report, f, v) ==
  [report EXCEPT !.val =
     [i \in DOMAIN @ |-> IF @[i].tag = f THEN El(f, v, "") ELSE @[i]]]

\* The body of the loop over the rows, for one row with three cells.
row_step(report, row) ==
  LET f == field_of(row.attr) IN
  IF f = "" THEN report
  ELSE IF f = "wave_mean_degrees"
    THEN IF deg_match(row.text) = "" THEN report
         ELSE set_field(report, f, split(deg_match(row.text)))
  ELSE set_field(report, f, split(row.text))

\* report_rows that also takes the rows with fewer than three cells.
report_rows_NoLenCheck(html) ==
  SelectSeq(html, LAMBDA e : e.tag \in {"tr", "tr_short"})

\* table.findAll("tr") without the rows skipped by len(cells) < 3
report_rows(html) == SelectSeq(html, LAMBDA e : e.tag = "tr")

RECURSIVE walk_rows(_, _)
walk_rows(report, rows) ==
  IF rows = <<>> THEN report
  ELSE walk_rows(row_step(report, Head(rows)), Tail(rows))

\* soup.find("caption", {"class": "titleDataHeader"}): the first one, or <<>>
find_caption(html) ==
  SelectSeq(html, LAMBDA e : e.tag = "caption" /\ e.attr = "titleDataHeader")

\* What station_report makes of the value _get returned, up to the report it builds.
station_report(html) ==
  IF html.kind # "body" \/ html.val = <<>> THEN None
  ELSE IF find_caption(html.val) = <<>> THEN None
  ELSE LET m == caption_match(find_caption(html.val)[1].text) IN
       IF m = "" THEN None
       ELSE IF strptime(m) = "" THEN Raise("ValueError")
       ELSE walk_rows(Report(strptime(m)), report_rows(html.val))

\* A unit of gather ends with outcome o; gather keeps the first exception.
UnitEnds(u, o) ==
  /\ out' = [out EXCEPT ![u] = o]
  /\ pc' = [pc EXCEPT ![u] = "done"]
  /\ firstExc' = IF IsRaise(o) /\ ~IsRaise(firstExc) THEN o ELSE firstExc

\* station_report from the return of _get to the open of the report file.
UnitExtract(u) ==
  /\ pc[u] = "after_get"
  /\ IF IsRaise(got[u]) THEN UnitEnds(u, got[u])
     ELSE IF station_report(got[u]).kind = "report"
       THEN /\ pc' = [pc EXCEPT ![u] = "save"]
            /\ UNCHANGED <<out, firstExc>>
       ELSE UnitEnds(u, station_report(got[u]))
  /\ UNCHANGED <<req, retval, got, via, cache, cacheDir, closed, netCount, fetched,
                 stations, result, reports, log, status, stvars, updvars>>

\* os.makedirs, the pickle written to reports/<station_id>/, return report
UnitSave(u) ==
  /\ pc[u] = "save"
  /\ reports' = reports \cup {<<stations[u], station_report(got[u]).val[1].attr>>}
  /\ UnitEnds(u, station_report(got[u]))
  /\ UNCHANGED <<req, retval, got, via, cache, cacheDir, closed, netCount, fetched,
                 stations, result, log, status, stvars, updvars>>

\* asyncio.run cancels the tasks still pending once run() has ended.
UnitCancel(u) ==
  /\ pc[Main] \in {"returned", "raised"}
  /\ pc[u] \notin {"off", "done"}
  /\ UnitEnds(u, Raise("CancelledError"))
  /\ UNCHANGED <<req, retval, got, via, cache, cacheDir, closed, netCount, fetched,
                 stations, result, reports, log, status, stvars, updvars>>

\* ---------------------------------------------- NOAAClient.station_list
\* re.search(r"station_page.php\?station=(\d+)$", href) and int(): 0 when no match
href_station(href) ==
  IF \E id \in StationIds : href = StationHref(id)
    THEN CHOOSE id \in StationIds : href = StationHref(id)
    ELSE 0

RECURSIVE station_list(_)
station_list(html) ==
  IF html = <<>> THEN <<>>
  ELSE IF Head(html).tag = "a" /\ href_station(Head(html).attr) # 0
    THEN <<href_station(Head(html).attr)>> \o station_list(Tail(html))
    ELSE station_list(Tail(html))

\* ------------------------------------------------------------------ run
Launched == 1..Len(stations)

\* async with NOAAClient() as client: stations = await client.station_list()
MainStart ==
  /\ pc[Main] = "start"
  /\ CallGet(Main, IndexReq)
  /\ UNCHANGED <<retval, got, via, out, cache, cacheDir, closed, netCount, fetched,
                 stations, firstExc, result, reports, log, status, stvars, updvars>>

\* The exception e leaves the `async with` block.
MainFails(e) ==
  /\ out' = [out EXCEPT ![Main] = e]
  /\ pc' = [pc EXCEPT ![Main] = "aexit"]

\* station_list after its _get; tasks = [...]; asyncio.gather(*tasks) starts them
MainList ==
  /\ pc[Main] = "after_get"
  /\ IF IsRaise(got[Main])
       THEN MainFails(got[Main]) /\ UNCHANGED <<req, stations>>
     ELSE IF got[Main].kind = "none"
       THEN MainFails(Raise("TypeError")) /\ UNCHANGED <<req, stations>>
     ELSE /\ stations' = station_list(got[Main].val)
          /\ pc' = [p \in Procs |->
                IF p = Main THEN "gather"
                ELSE IF p \in 1..Len(stations') THEN "get_open"
                ELSE pc[p]]
          /\ req' = [p \in Procs |->
                IF p \in 1..Len(stations') THEN StationReq(stations'[p]) ELSE req[p]]
          /\ UNCHANGED out
  /\ UNCHANGED <<retval, got, via, cache, cacheDir, closed, netCount, fetched,
                 firstExc, result, reports, log, status, stvars, updvars>>

LastIndex(id) == CHOOSE i \in Launched :
  stations[i] = id /\ \A j \in Launched : stations[j] = id => j <= i

\* ZipDict with the results taken in the reverse of the order of the tasks.
ZipDict_Reversed ==
  [id \in {stations[i] : i \in Launched} |->
     out[Len(stations) + 1 - LastIndex(id)]]

\* {station_id: report for station_id, report in zip(stations, result)}
ZipDict == [id \in {stations[i] : i \in Launched} |-> out[LastIndex(id)]]

\* gather: every unit has returned; reports = {...}
MainGatherReturn ==
  /\ pc[Main] = "gather"
  /\ \A u \in Launched : pc[u] = "done"
  /\ ~IsRaise(firstExc)
  /\ result' = ZipDict
  /\ out' = [out EXCEPT ![Main] = [kind |-> "dict", val |-> <<>>]]
  /\ pc' = [pc EXCEPT ![Main] = "aexit"]
  /\ UNCHANGED <<req, retval, got, via, cache, cacheDir, closed, netCount, fetched,
                 stations, firstExc, reports, log, status, stvars, updvars>>

\* gather (return_exceptions=False): the first exception is raised in run at once.
MainGatherRaise ==
  /\ pc[Main] = "gather"
  /\ IsRaise(firstExc)
  /\ MainFails(firstExc)
  /\ UNCHANGED <<req, retval, got, via, cache, cacheDir, closed, netCount, fetched,
                 stations, firstExc, result, reports, log, status, stvars, updvars>>

\* __aexit__: await self.session.close(); then run returns or raises.
MainExit ==
  /\ pc[Main] = "aexit"
  /\ closed' = TRUE
  /\ pc' = [pc EXCEPT ![Main] = IF IsRaise(out[Main]) THEN "raised" ELSE "returned"]
  /\ UNCHANGED <<req, retval, got, via, out, cache, cacheDir, netCount, fetched,
                 stations, firstExc, result, reports, log, status, stvars, updvars>>

\* ------------------------------------------------------ update_reports
\* report.station_id: the dataclass of client.py has no such attribute.
has_station_id(report) ==
  \E i \in 1..Len(report.val) : report.val[i].tag = "station_id"

station_id_of(report) ==
  (CHOOSE e \in {report.val[i] : i \in 1..Len(report.val)} :
     e.tag = "station_id").attr

\* reports = [x for x in await asyncio.gather(*tasks) if x is not None]
UpdReports == {out[u] : u \in {v \in Launched : out[v] # None}}

\* {f"report/{report.station_id}.json": asdict(report) for report in reports}
UpdObjects ==
  [key \in {"report/" \o station_id_of(r) \o ".json" : r \in UpdReports} |->
     CHOOSE r \in UpdReports : "report/" \o station_id_of(r) \o ".json" = key]

\* update_reports runs as run() does up to the return of gather.
InitUpd ==
  /\ InitRest
  /\ got = [p \in Procs |-> NoVal]
  /\ store = [id \in StationIds |-> NoFile]
  /\ storeDir = TRUE
  /\ batch = "update_reports"
  /\ pc = [p \in Procs |-> IF p = Main THEN "start" ELSE "off"]

\* gather: every unit has returned; the argument of upload_data is built.
UpdGatherReturn ==
  /\ pc[Main] = "gather"
  /\ \A u \in Launched : pc[u] = "done"
  /\ ~IsRaise(firstExc)
  /\ IF \E r \in UpdReports : ~has_station_id(r)
       THEN MainFails(Raise("AttributeError")) /\ UNCHANGED result
       ELSE /\ result' = UpdObjects
            /\ pc' = [pc EXCEPT ![Main] = "upload"]
            /\ UNCHANGED out
  /\ UNCHANGED <<req, retval, got, via, cache, cacheDir, closed, netCount, fetched,
                 stations, firstExc, reports, log, status, stvars, updvars>>

\* upload_data(objects): put_object of every key, then update_reports returns.
UpdUpload ==
  /\ pc[Main] = "upload"
  /\ uploaded' = uploaded \cup DOMAIN result
  /\ out' = [out EXCEPT ![Main] = None]
  /\ pc' = [pc EXCEPT ![Main] = "aexit"]
  /\ UNCHANGED <<req, retval, got, via, cache, cacheDir, closed, netCount, fetched,
                 stations, firstExc, result, reports, log, status, stvars, batch>>

\* ------------------------------------------------- sequential _get calls
CallerCall ==
  /\ pc[Caller] = "call"
  /\ Len(log) < MaxCalls
  /\ \E r \in CallerReqs : CallGet(Caller, r)
  /\ UNCHANGED <<retval, got, via, out, cache, cacheDir, closed, netCount, fetched,
                 stations, firstExc, result, reports, log, status, stvars, updvars>>

\* The call is over: what was asked, what came back, how, and the requests so far.
CallerDone ==
  /\ pc[Caller] = "after_get"
  /\ log' = Append(log, [req |-> req[Caller], got |-> got[Caller],
                         via |-> via[Caller], net |-> netCount[KeyOf(req[Caller])],
                         status |-> status[Caller],
                         cached |-> cache[KeyOf(req[Caller])].exists])
  /\ pc' = [pc EXCEPT ![Caller] = "call"]
  /\ UNCHANGED <<req, retval, got, via, out, cache, cacheDir, closed, netCount,
                 fetched, stations, firstExc, result, reports, status, stvars, updvars>>

\* ------------------------------------- station_report on a given page
\* station_report(1) at the return of a _get that handed it a page with a table.
InitReport ==
  /\ InitRest
  /\ \E page \in ReportPages :
       got = [p \in Procs |-> IF p = Caller THEN Body(page) ELSE NoVal]
  /\ store = [id \in StationIds |-> NoFile]
  /\ storeDir = TRUE
  /\ batch = "run"
  /\ pc = [p \in Procs |-> IF p = Caller THEN "parse" ELSE "off"]

\* station_report from the return of _get to its own return, the pickle included.
ReportExtract ==
  /\ pc[Caller] = "parse"
  /\ out' = [out EXCEPT ![Caller] = station_report(got[Caller])]
  /\ reports' = IF station_report(got[Caller]).kind = "report"
                  THEN reports \cup {<<1, station_report(got[Caller]).val[1].attr>>}
                  ELSE reports
  /\ pc' = [pc EXCEPT ![Caller] = "parsed"]
  /\ UNCHANGED <<req, retval, got, via, cache, cacheDir, closed, netCount, fetched,
                 stations, firstExc, result, log, status, stvars, updvars>>

NextReport == ReportExtract

SpecReport == InitReport /\ [][NextReport]_vars

\* ------------------------------------------------- NOAAClient.station
\* The dataclass Station: id, name, rss, latitude, longitude.
Station(id, name, rss, lat, lon) ==
  [kind |-> "station",
   val |-> <<El("id", ToString(id), ""), El("name", name, ""), El("rss", rss, ""),
             El("latitude", lat, ""), El("longitude", lon, "")>>]

\* re.search(r"([\d\.]+ [NS]) ([\d\.]+ [EW])", text): groups 1 and 2, <<>> when
\* nothing matches
coord_match(text) ==
  IF text \in {MetaOk.text, DivOther.text} THEN <<"32.868 N", "117.267 W">>
  ELSE <<>>

\* a["href"].lstrip("/")
lstrip(href) ==
  IF href = RssHref(1) THEN "data/latest_obs/1.rss"
  ELSE IF href = RssHref(2) THEN "data/latest_obs/2.rss"
  ELSE href

\* soup.find("div", {"id": "stn_metadata"}): the first such div, <<>> when none
find_metadata(html) ==
  SelectSeq(html, LAMBDA e : e.tag = "div" /\ e.attr = "stn_metadata")

\* One anchor of the loop: the station so far and the anchor give the station
\* after it, or the AttributeError of None.get_text().
anchor_step(html, station_id, station, a) ==
  IF a.attr # RssHref(station_id) THEN station
  ELSE IF find_metadata(html) = <<>> THEN Raise("AttributeError")
  ELSE IF coord_match(find_metadata(html)[1].text) = <<>> THEN station
  ELSE Station(station_id, a.text, Url(lstrip(a.attr)),
               coord_match(find_metadata(html)[1].text)[1],
               coord_match(find_metadata(html)[1].text)[2])

RECURSIVE walk_anchors(_, _, _, _)
walk_anchors(html, station_id, station, as) ==
  IF as = <<>> \/ IsRaise(station) THEN station
  ELSE walk_anchors(html, station_id,
                    anchor_step(html, station_id, station, Head(as)), Tail(as))

\* The except branch of station() after _get returned html: what it returns.
station_of(html, station_id) ==
  IF IsRaise(html) THEN html
  ELSE IF html.kind # "body" \/ html.val = <<>> THEN None
  ELSE walk_anchors(html.val, station_id, None,
                    SelectSeq(html.val, LAMBDA e : e.tag = "a"))

\* pickle.dumps / pickle.loads of a Station
dumps(station) == <<El("pickle", "buoy.client.Station", "")>> \o station.val
loads(data) ==
  IF data = <<>> THEN Raise("EOFError")
  ELSE IF Len(data) # 6 \/ data[1].tag # "pickle" THEN Raise("UnpicklingError")
  ELSE [kind |-> "station", val |-> Tail(data)]

\* The station id of the call of station() in progress.
TheId == req[Caller].params[1][2]

\* A caller awaits client.station(id); the log keeps what the call found.
StCall ==
  /\ pc[Caller] = "st_call"
  /\ Len(log) < MaxStCalls
  /\ \E id \in StationIds :
       /\ req' = [req EXCEPT ![Caller] = StationReq(id)]
       /\ log' = Append(log, [id |-> id, store |-> store, cache |-> cache,
                              net |-> netCount])
  /\ got' = [got EXCEPT ![Caller] = NoVal]
  /\ via' = [via EXCEPT ![Caller] = "none"]
  /\ out' = [out EXCEPT ![Caller] = NoVal]
  /\ pc' = [pc EXCEPT ![Caller] = "st_open"]
  /\ UNCHANGED <<retval, cache, cacheDir, closed, netCount, fetched, stations,
                 firstExc, result, reports, status, stvars, updvars>>

\* station() returns or raises o.
StReturn(o) ==
  /\ out' = [out EXCEPT ![Caller] = o]
  /\ pc' = [pc EXCEPT ![Caller] = "st_call"]

StOpen_NoStore ==
  /\ pc[Caller] = "st_open"
  /\ pc' = [pc EXCEPT ![Caller] = "get_open"]
  /\ UNCHANGED <<req, retval, got, via, out, cache, cacheDir, closed, netCount,
                 fetched, stations, firstExc, result, reports, log, status,
                 stvars, updvars>>

\* aiofiles.open(local_file, "rb"); FileNotFoundError leads to self._get
StOpen ==
  /\ pc[Caller] = "st_open"
  /\ pc' = [pc EXCEPT ![Caller] = IF store[TheId].exists THEN "st_read"
                                                         ELSE "get_open"]
  /\ UNCHANGED <<req, retval, got, via, out, cache, cacheDir, closed, netCount,
                 fetched, stations, firstExc, result, reports, log, status,
                 stvars, updvars>>

\* data = await f.read(); station = pickle.loads(data); return station
StRead ==
  /\ pc[Caller] = "st_read"
  /\ StReturn(loads(store[TheId].data))
  /\ UNCHANGED <<req, retval, got, via, cache, cacheDir, closed, netCount,
                 fetched, stations, firstExc, result, reports, log, status,
                 stvars, updvars>>

\* From the return of _get to the first match that is stored, or to the return.
StExtract ==
  /\ pc[Caller] = "after_get"
  /\ IF station_of(got[Caller], TheId).kind = "station"
       THEN /\ pc' = [pc EXCEPT ![Caller] = "st_wopen"]
            /\ UNCHANGED out
       ELSE StReturn(station_of(got[Caller], TheId))
  /\ UNCHANGED <<req, retval, got, via, cache, cacheDir, closed, netCount,
                 fetched, stations, firstExc, result, reports, log, status,
                 stvars, updvars>>

\* aiofiles.open(local_file, "wb"): creates or truncates the file.
StWOpen ==
  /\ pc[Caller] = "st_wopen"
  /\ IF storeDir
       THEN /\ store' = [store EXCEPT ![TheId] = File(<<>>)]
            /\ pc' = [pc EXCEPT ![Caller] = "st_write"]
            /\ UNCHANGED out
       ELSE /\ StReturn(Raise("FileNotFoundError"))
            /\ UNCHANGED store
  /\ UNCHANGED <<req, retval, got, via, cache, cacheDir, closed, netCount,
                 fetched, stations, firstExc, result, reports, log, status,
                 storeDir, updvars>>

\* await f.write(pickle.dumps(station)), the file is closed; return station
StWrite ==
  /\ pc[Caller] = "st_write"
  /\ store' = [store EXCEPT ![TheId] = File(dumps(station_of(got[Caller], TheId)))]
  /\ StReturn(station_of(got[Caller], TheId))
  /\ UNCHANGED <<req, retval, got, via, cache, cacheDir, closed, netCount,
                 fetched, stations, firstExc, result, reports, log, status,
                 storeDir, updvars>>

\* Sequential calls of station(): the store may hold stations of earlier runs.
InitStation ==
  /\ InitRest
  /\ got = [p \in Procs |-> NoVal]
  /\ storeDir \in BOOLEAN
  /\ store \in [StationIds -> {NoFile} \cup
                  {File(dumps(Station(id, "Station " \o ToString(id),
                                      Url(lstrip(RssHref(id))),
                                      "32.868 N", "117.267 W"))) : id \in StationIds}]
  /\ \A id \in StationIds : store[id].exists =>
       storeDir /\ store[id].data[2].attr = ToString(id)
  /\ batch = "station"
  /\ pc = [p \in Procs |-> IF p = Caller THEN "st_call" ELSE "off"]

NextStation ==
  \/ StCall
  \/ StOpen
  \/ StRead
  \/ StExtract
  \/ StWOpen
  \/ StWrite
  \/ Get(Caller)

SpecStation == InitStation /\ [][NextStation]_vars

\* ------------------------------------------------------- specifications
Next ==
  \/ MainStart
  \/ MainList
  \/ MainGatherReturn
  \/ MainGatherRaise
  \/ MainExit
  \/ \E u \in Units : UnitExtract(u)
  \/ \E u \in Units : UnitSave(u)
  \/ \E u \in Units : UnitCancel(u)
  \/ \E p \in {Main} \cup Units : Get(p)

Spec == Init /\ [][Next]_vars

NextSeq ==
  \/ CallerCall
  \/ CallerDone
  \/ Get(Caller)

SpecSeq == InitSeq /\ [][NextSeq]_vars

NextUpd ==
  \/ MainStart
  \/ MainList
  \/ UpdGatherReturn
  \/ UpdUpload
  \/ MainGatherRaise
  \/ MainExit
  \/ \E u \in Units : UnitExtract(u)
  \/ \E u \in Units : UnitSave(u)
  \/ \E u \in Units : UnitCancel(u)
  \/ \E p \in {Main} \cup Units : Get(p)

SpecUpd == InitUpd /\ [][NextUpd]_vars

\* =============================================================== claims
\* run() has handed control back to its caller.
MainDone == pc[Main] \in {"returned", "raised"}

\* The await of asyncio.gather in run() is over.
PastGather == Len(stations) > 0 /\ pc[Main] \in {"aexit", "returned", "raised"}

DistinctStations ==
  \A i, j \in Launched : stations[i] = stations[j] => i = j

\* The fetch of unit u failed at transport level: an exception of the GET, or
\* a response whose status made _get return None.
TransportFailed(u) ==
  /\ pc[u] = "done"
  /\ via[u] = "net"
  /\ \/ got[u].kind = "none"
     \/ IsRaise(got[u]) /\ ExcOf(got[u]) \in TransportErrors

\* Unit u fetched its page and extracted a report from it.
Succeeded(u) == pc[u] = "done" /\ out[u].kind = "report"

\* C1: when the fetch of one station K of a batch fails at transport level and
\* every other unit succeeds, run() returns (it does not raise) a mapping that
\* holds the report of every other station and None for K.
C1_PartialFailureIsolation ==
  \A K \in Launched :
    ( /\ MainDone
      /\ DistinctStations
      /\ TransportFailed(K)
      /\ Launched # {K}
      /\ \A u \in Launched \ {K} : Succeeded(u) )
    => /\ pc[Main] = "returned"
       /\ result[stations[K]] = None
       /\ \A u \in Launched \ {K} : result[stations[u]] = out[u]

\* Calls i and i+1 of the caller ask for the same (url, params).
SamePair(i) == log[i].req = log[i + 1].req

C3_Barrier == PastGather => \A u \in Launched : pc[u] = "done"

\* C4: no signature is requested from the network more than once.
C4_OneRequestPerSignature == \A k \in Keys : netCount[k] <= 1

\* C5: a _get call served from the cache file returns a complete body that a
\* successful fetch of that signature read.
C5_NoTornCacheRead ==
  \A p \in Procs :
    (pc[p] = "after_get" /\ via[p] = "hit")
      => got[p].val \in fetched[KeyOf(req[p])]

\* C6: _get does not raise the connection error or timeout of its GET.
C6_GetNeverRaises ==
  \A p \in Procs :
    pc[p] = "after_get" => ~(IsRaise(got[p]) /\ ExcOf(got[p]) \in TransportErrors)

\* C7: a _get call that read a body from a 200 response returns that body,
\* whether or not the cache file could be written.
C7_CacheWriteFailureNonFatal ==
  \A p \in Procs :
    (pc[p] = "after_get" /\ retval[p].kind = "body") => got[p] = retval[p]

\* The dict the parameters were built into.
ParamSet(ps) == {ps[i] : i \in 1..Len(ps)}

\* C8: two calls with the same url and the same parameter set have the same
\* cache key, whatever order the parameters were inserted in.
C8_SignatureOrderIndependence ==
  \A i, j \in 1..Len(log) :
    ( /\ log[i].req.url = log[j].req.url
      /\ ParamSet(log[i].req.params) = ParamSet(log[j].req.params) )
    => KeyOf(log[i].req) = KeyOf(log[j].req)

\* The page has a caption with the marker and its text is no timestamp.
Malformed(html) ==
  /\ html.kind = "body"
  /\ find_caption(html.val) # <<>>
  /\ \/ caption_match(find_caption(html.val)[1].text) = ""
     \/ strptime(caption_match(find_caption(html.val)[1].text)) = ""

\* Unit u ran station_report to its end on the page it got.
Extracted(u) ==
  pc[u] = "done" /\ got[u].kind = "body" /\ got[u].val # <<>>
    /\ ~(IsRaise(out[u]) /\ ExcOf(out[u]) = "CancelledError")

\* C9: station_report yields absent for a page without the marked caption, a
\* malformation signal (never absent) for a marked caption that does not
\* parse, and a report for one that parses.
C9_MalformationDistinct ==
  \A u \in Launched :
    Extracted(u) =>
      IF find_caption(got[u].val) = <<>> THEN out[u] = None
      ELSE IF Malformed(got[u]) THEN IsRaise(out[u])
      ELSE out[u].kind = "report"

\* C10: when one station's page fails strict timestamp parsing, run() still
\* returns the reports of every other station whose unit succeeded.
C10_BestEffortPartialResult ==
  \A K \in Launched :
    ( /\ MainDone
      /\ DistinctStations
      /\ pc[K] = "done" /\ out[K] = Raise("ValueError")
      /\ Launched # {K}
      /\ \A u \in Launched \ {K} : Succeeded(u) )
    => /\ pc[Main] = "returned"
       /\ \A u \in Launched \ {K} : result[stations[u]] = out[u]

\* C11: station_list returns every station id at most once.
C11_CatalogDedup ==
  pc[Main] \in {"gather", "aexit", "returned", "raised"} => DistinctStations

\* A coroutine is inside _get.
GetPcs ==
  {"get_open", "get_read", "get_net", "get_text", "get_wopen", "get_write",
   "get_close"}

\* A _get call of p wrote its body to the cache file of key k and returned.
StoredBy(p, k) ==
  /\ pc[p] \notin GetPcs
  /\ via[p] = "net"
  /\ got[p].kind = "body"
  /\ KeyOf(req[p]) = k

\* C12: once a _get call has stored a body for a signature, no step changes
\* or truncates the cache file of that signature.
C12_WriteOnce ==
  [][\A k \in Keys : (\E p \in Procs : StoredBy(p, k)) => cache'[k] = cache[k]]_vars

\* Unit u is the only unit of its station id.
OnlyUnit(u) == \A v \in Launched : stations[v] = stations[u] => v = u

\* C17: when every unit completed without raising, the mapping run() returns
\* has exactly the station ids of station_list as keys, and the value under
\* an id is the outcome of a unit of that id (of its only unit when the id is
\* listed once), whatever order the units completed in.
C17_PerStationMapping ==
  pc[Main] = "returned" =>
    /\ DOMAIN result = {stations[i] : i \in Launched}
    /\ \A u \in Launched : OnlyUnit(u) => result[stations[u]] = out[u]
    /\ \A id \in DOMAIN result :
         \E u \in Launched : stations[u] = id /\ result[id] = out[u]

\* run() returned a mapping with a report for one station and None for another.
C17_Witness ==
  /\ pc[Main] = "returned"
  /\ Len(stations) = 2
  /\ DistinctStations
  /\ result[stations[1]].kind = "report"
  /\ result[stations[2]] = None

\* C18: the session is closed once run() has ended, and no unit calls
\* session.get on the closed session.
C18_NoRequestAfterClose ==
  /\ MainDone => closed
  /\ \A u \in Units : ~(IsRaise(got[u]) /\ ExcOf(got[u]) = "RuntimeError")

Is2xx(s) == s \in 200..299

\* C13: a _get call that missed the cache and was answered with a 2xx status
\* returns the body and leaves it in the cache file of its signature.
C13_Every2xxCached ==
  \A i \in 1..Len(log) :
    (log[i].via = "net" /\ Is2xx(log[i].status) /\ ~IsRaise(log[i].got))
      => log[i].got.kind = "body" /\ log[i].cached

\* C14: a _get call that missed the cache and was answered with a non-2xx
\* status returns None, leaves no cache file for its signature, and the next
\* call with the same signature issues a network request again.
C14_Non2xxAbsentUncached ==
  \A i \in 1..Len(log) :
    (log[i].via = "net" /\ log[i].status # 0 /\ ~Is2xx(log[i].status))
      => /\ log[i].got = None
         /\ ~log[i].cached
         /\ (i < Len(log) /\ SamePair(i)) => log[i + 1].net = log[i].net + 1

\* A call answered 404 was followed by a call for the same (url, params).
C14_Witness ==
  \E i \in 1..(Len(log) - 1) :
    log[i].via = "net" /\ log[i].status = 404 /\ SamePair(i)

\* The page station_report was given, and what it returned.
ThePage == got[Caller].val
TheReport == out[Caller]

\* The text of field f of a report.
FieldOf(report, f) ==
  LET i == CHOOSE i \in DOMAIN report.val : report.val[i].tag = f IN report.val[i].attr

\* Element e of the page is a row of three cells whose label is that of field f.
Labelled(e, f) == e.tag = "tr" /\ field_of(e.attr) = f

\* The tokens a row labelled for f gives: of the degree token for the mean
\* wave direction, of the whole value cell otherwise; "" when it gives none.
Tokens(e, f) ==
  IF f = "wave_mean_degrees"
    THEN IF deg_match(e.text) = "" THEN "" ELSE split(deg_match(e.text))
    ELSE split(e.text)

\* The rows of the page that give field f a value.
Setting(f) ==
  {j \in 1..Len(ThePage) : Labelled(ThePage[j], f) /\ Tokens(ThePage[j], f) # ""}

\* C16: for a page whose caption parses, station_report returns a report with
\* the caption's timestamp; a field no three-cell row is labelled for is None
\* (so a table without matching rows gives five absent fields, and an unknown
\* label or a short row changes nothing); a field that is set holds the
\* tokens of the last row labelled for it.
C16_FieldOptionality ==
  (pc[Caller] = "parsed" /\ find_caption(ThePage) # <<>>) =>
    /\ TheReport.kind = "report"
    /\ Len(TheReport.val) = 1 + Len(Fields)
    /\ FieldOf(TheReport, "timestamp") = "2019-08-10T17:50:00"
    /\ \A i \in 1..Len(Fields) :
         LET f == Fields[i] IN
         IF Setting(f) = {}
           THEN FieldOf(TheReport, f) = "None"
           ELSE \E j \in Setting(f) :
                  /\ \A k \in Setting(f) : k <= j
                  /\ FieldOf(TheReport, f) = Tokens(ThePage[j], f)

\* A report from a table holding only an unknown label and a short row.
C16_Witness ==
  /\ pc[Caller] = "parsed"
  /\ ThePage = <<CaptionOk, El("tr", "Air Pressure (PRES):", "30.1 in"),
                 El("tr_short", "Wave Height (WVHT):", "9.9 ft")>>
  /\ TheReport = Report("2019-08-10T17:50:00")


\* A call of station() is over; Last is what that call found when it began.
StDone == pc[Caller] = "st_call" /\ log # <<>>
Last == log[Len(log)]

HasAnchor(html, id) ==
  \E i \in 1..Len(html) : html[i].tag = "a" /\ html[i].attr = RssHref(id)
HasMeta(html) ==
  \E i \in 1..Len(html) : html[i].tag = "div" /\ html[i].attr = "stn_metadata"
\* The metadata block that find() gives holds a coordinate pair.
HasCoords(html) ==
  \E i \in 1..Len(html) :
    /\ html[i].tag = "div" /\ html[i].attr = "stn_metadata"
    /\ \A j \in 1..(i - 1) : ~(html[j].tag = "div" /\ html[j].attr = "stn_metadata")
    /\ coord_match(html[i].text) # <<>>

\* C15: when the fetched page has no anchor of the station, or has the anchor
\* but no metadata block, or has both but no coordinate pair in the block,
\* station() returns None, raises nothing and writes no station file.
C15_AbsentNeverError ==
  (/\ StDone
   /\ got[Caller].kind = "body"
   /\ \/ ~HasAnchor(got[Caller].val, Last.id)
      \/ ~HasMeta(got[Caller].val)
      \/ ~HasCoords(got[Caller].val))
  => out[Caller] = None /\ store = Last.store

UpdExtracted ==
  /\ MainDone
  /\ \A u \in Launched : pc[u] = "done" /\ ~IsRaise(out[u])
  /\ \E u \in Launched : out[u].kind = "report"

\* C19: every report carries the station id it was asked for, and an
\* update_reports whose units extracted at least one report returns without
\* error with every report uploaded under report/<station_id>.json.
C19_ReportsKeyedById ==
  /\ \A u \in Launched : out[u].kind = "report" =>
       \E i \in 1..Len(out[u].val) :
         out[u].val[i].tag = "station_id" /\ out[u].val[i].attr = ToString(stations[u])
  /\ UpdExtracted =>
       /\ pc[Main] = "returned"
       /\ uploaded = {"report/" \o ToString(stations[u]) \o ".json" :
                        u \in {v \in Launched : out[v].kind = "report"}}
====
